---- MODULE Spec2Model ----
(***************************************************************************)
(* Model of crawlab-vcs: GitClient (git.go), a thin client over the go-git *)
(* engine with an on-disk and an in-memory backend.                        *)
(*                                                                         *)
(* The engine (go-git v5.7.0, go.mod line 9) is not part of the            *)
(* repository; the operators named Eng... model what the engine calls made *)
(* by git.go do to a repository: references, branch configuration,         *)
(* remotes, index and working tree.  Commits have one parent (the engine's *)
(* pull is fast-forward only), a hash is the position of the commit in the *)
(* object table and 0 is the zero hash.                                    *)
(***************************************************************************)
EXTENDS Integers, Sequences, FiniteSets, TLC

\* ---------------------------------------------------------------- bounds
MaxCommits == 2      \* commits created in a run
MaxClients == 3      \* NewGitClient calls in a run
MaxObj == 2          \* in-memory storages / filesystems allocated in a run

\* ---------------------------------------------------------------- domains
Branches == {"master", "test"}
Files == {"f", "g"}
Contents == {1, 2}           \* 0 stands for "no such file"
Msgs == {"m1", "m2"}
FsPaths == {"a", "b", "r"}   \* directories of the disk; "" is the empty path
MemKeys == {"a", ""}         \* keys of the in-memory registry
Detached == "DETACHED"       \* HEAD is a hash reference
NoUrl == ""

NoFiles == [f \in Files |-> 0]

\* A repository: HEAD, branch references, remote-tracking references,
\* config (branches, the remote origin) and the index.
NoRepo ==
    [exists |-> FALSE, head |-> "master", headHash |-> 0,
     refs |-> [b \in Branches |-> 0], remoteRefs |-> [b \in Branches |-> 0],
     cfgBranches |-> {}, origin |-> NoUrl, index |-> NoFiles]

\* git.Init: an empty repository whose HEAD is a symbolic reference to master.
FreshRepo == [NoRepo EXCEPT !.exists = TRUE]

NilRepository == [ok |-> FALSE, mem |-> FALSE, path |-> "", st |-> 0, wt |-> 0]

\* The private-key files of the disk: an unencrypted key at the default path,
\* a key encrypted with the passphrase "pw", a file that is no key, and a path
\* with no file.
DefaultKeyPath == "~/.ssh/id_rsa"
KeyPaths == {DefaultKeyPath, "id_enc", "id_bad", "id_none"}
KeyPassphrase == "pw"
KeyFile(path) ==
    IF path = DefaultKeyPath THEN "plain"
    ELSE IF path = "id_enc" THEN "encrypted"
    ELSE IF path = "id_bad" THEN "garbage"
    ELSE "missing"

AuthTypes ==
    {"GitAuthTypeNone", "GitAuthTypeHTTP", "GitAuthTypeSSH", "GitAuthType(3)"}
Usernames == {"", "u"}
Passwords == {"", "pw", "xx"}

\* The goroutines that run Init at the same time, and the objects of the heap:
\* those the sequential calls may make and a storage and a filesystem for each
\* goroutine.
Procs == {"p1", "p2"}
HeapSize == MaxObj + 2 * Cardinality(Procs)

\* A goroutine that is not in Init.
Idle == [pc |-> "idle",
         opts |-> [Path |-> "", RemoteUrl |-> NoUrl, IsBare |-> FALSE, IsMem |-> FALSE,
                   AuthType |-> "GitAuthTypeNone", Username |-> "", Password |-> "",
                   PrivateKeyPath |-> DefaultKeyPath],
         st |-> 0, fs |-> 0]

VARIABLES
    dirs,               \* disk: path -> "none" | "empty" | "plain" | "bare" | "gone"
    fsRepo,             \* disk: path -> repository stored at the path
    fsTree,             \* disk: path -> files of the working tree
    GitMemStorages,     \* registry: key -> storage object (0: no entry)
    GitMemFileSystem,   \* registry: key -> filesystem object (0: no entry)
    memStore,           \* heap: storage object -> repository
    memFs,              \* heap: filesystem object -> files
    nextObj,            \* next heap object
    commits,            \* object table: hash -> [msg, parent, tree]
    clients,            \* the GitClient values constructed so far
    scenario,           \* the options the callers of this run construct with
    inits               \* goroutine -> its place in a concurrent Init

vars == <<dirs, fsRepo, fsTree, GitMemStorages, GitMemFileSystem, memStore,
          memFs, nextObj, commits, clients, scenario, inits>>

\* The world the operations act on, as one value.
World ==
    [dirs |-> dirs, fsRepo |-> fsRepo, fsTree |-> fsTree,
     GitMemStorages |-> GitMemStorages, GitMemFileSystem |-> GitMemFileSystem,
     memStore |-> memStore, memFs |-> memFs, nextObj |-> nextObj,
     commits |-> commits]

Apply(w) ==
    /\ dirs' = w.dirs
    /\ fsRepo' = w.fsRepo
    /\ fsTree' = w.fsTree
    /\ GitMemStorages' = w.GitMemStorages
    /\ GitMemFileSystem' = w.GitMemFileSystem
    /\ memStore' = w.memStore
    /\ memFs' = w.memFs
    /\ nextObj' = w.nextObj
    /\ commits' = w.commits

\* The repository and the working tree behind a client's handle c.r.
RepoOf(w, r) == IF r.mem THEN w.memStore[r.st] ELSE w.fsRepo[r.path]
TreeOf(w, r) == IF r.mem THEN w.memFs[r.wt] ELSE w.fsTree[r.path]
Put(w, r, rp, wt) ==
    IF r.mem
    THEN [w EXCEPT !.memStore[r.st] = rp, !.memFs[r.wt] = wt]
    ELSE [w EXCEPT !.fsRepo[r.path] = rp, !.fsTree[r.path] = wt]

\* ---------------------------------------------------------------- engine
\* Repository.Head: the hash HEAD resolves to, 0 when it does not resolve.
HeadHash(rp) == IF rp.head = Detached THEN rp.headHash ELSE rp.refs[rp.head]

RECURSIVE Ancestors(_, _)
\* The commits reachable from hash h through the parents, h included.
Ancestors(cs, h) == IF h = 0 THEN {} ELSE {h} \cup Ancestors(cs, cs[h].parent)

\* isFastForward(old, new): old is reachable from new.
IsFastForward(cs, old, new) == old \in Ancestors(cs, new)

TreeOfCommit(cs, h) == IF h = 0 THEN NoFiles ELSE cs[h].tree

\* Worktree.containsUnstagedChanges: a file of the index that the working
\* tree lacks or holds with another content (untracked files do not count).
ContainsUnstagedChanges(rp, wt) ==
    \E f \in Files : rp.index[f] # 0 /\ wt[f] # rp.index[f]

\* Worktree.setHEADCommit / updateHEAD: move the branch HEAD names, or HEAD
\* itself when it is detached.
SetHEADCommit(rp, h) ==
    IF rp.head = Detached
    THEN [rp EXCEPT !.headHash = h]
    ELSE [rp EXCEPT !.refs[rp.head] = h]

\* Worktree.Reset whose hard and merge modes write the files of the commit and
\* leave the other files of the working tree.
EngReset_KeepsUntracked(cs, rp, wt, mode, commit) ==
    LET target == IF commit = 0 THEN HeadHash(rp) ELSE commit
    IN  IF target = 0
        THEN [rp |-> rp, wt |-> wt, err |-> "ErrReferenceNotFound"]
        ELSE IF mode = "merge" /\ ContainsUnstagedChanges(rp, wt)
        THEN [rp |-> rp, wt |-> wt, err |-> "ErrUnstagedChanges"]
        ELSE LET moved == SetHEADCommit(rp, target)
                 t == TreeOfCommit(cs, target)
             IN  IF mode = "soft"
                 THEN [rp |-> moved, wt |-> wt, err |-> "nil"]
                 ELSE [rp |-> [moved EXCEPT !.index = t],
                       wt |-> IF mode \in {"merge", "hard"}
                              THEN [f \in Files |-> IF t[f] # 0 THEN t[f] ELSE wt[f]]
                              ELSE wt,
                       err |-> "nil"]

\* Worktree.Reset(&ResetOptions{Mode, Commit}); Commit 0 means HEAD.
EngReset(cs, rp, wt, mode, commit) ==
    LET target == IF commit = 0 THEN HeadHash(rp) ELSE commit
    IN  IF target = 0
        THEN [rp |-> rp, wt |-> wt, err |-> "ErrReferenceNotFound"]
        ELSE IF mode = "merge" /\ ContainsUnstagedChanges(rp, wt)
        THEN [rp |-> rp, wt |-> wt, err |-> "ErrUnstagedChanges"]
        ELSE LET moved == SetHEADCommit(rp, target)
                 t == TreeOfCommit(cs, target)
             IN  IF mode = "soft"
                 THEN [rp |-> moved, wt |-> wt, err |-> "nil"]
                 ELSE [rp |-> [moved EXCEPT !.index = t],
                       wt |-> IF mode \in {"merge", "hard"} THEN t ELSE wt,
                       err |-> "nil"]

\* Worktree.Checkout(&CheckoutOptions{Branch, Hash}): branch "" is the empty
\* reference name, hash 0 the zero hash.
EngCheckout(cs, rp, wt, branch, hash) ==
    IF hash # 0 /\ branch # ""
    THEN [rp |-> rp, wt |-> wt, err |-> "ErrBranchHashExclusive"]
    ELSE LET b == IF branch = "" THEN "master" ELSE branch
             c == IF hash # 0 THEN hash ELSE rp.refs[b]
         IN  IF c = 0
             THEN [rp |-> rp, wt |-> wt, err |-> "ErrReferenceNotFound"]
             ELSE LET moved == IF hash # 0
                               THEN [rp EXCEPT !.head = Detached, !.headHash = hash]
                               ELSE [rp EXCEPT !.head = b, !.headHash = 0]
                  IN  EngReset(cs, moved, wt, "merge", c)

\* Worktree.Add("."): stage the working tree.
EngAddAll(rp, wt) == [rp EXCEPT !.index = wt]

\* The author of a commit made with CommitOptions{Author: nil}: the user of
\* the git configuration.
ConfigAuthor == [Name |-> "user", Email |-> "user@host"]

\* Worktree.Commit that stores the commit and leaves HEAD where it was.
EngCommit_NoUpdateHEAD(cs, rp, msg) ==
    IF \A f \in Files : rp.index[f] = 0
    THEN [cs |-> cs, rp |-> rp, err |-> "ErrEmptyCommit"]
    ELSE [cs |-> Append(cs, [msg |-> msg, parent |-> HeadHash(rp),
                             tree |-> rp.index, author |-> ConfigAuthor]),
          rp |-> rp, err |-> "nil"]

\* Worktree.Commit(msg, &CommitOptions{}): a commit of the index on top of
\* HEAD; the engine refuses an empty index.
EngCommit(cs, rp, msg) ==
    IF \A f \in Files : rp.index[f] = 0
    THEN [cs |-> cs, rp |-> rp, err |-> "ErrEmptyCommit"]
    ELSE LET c == [msg |-> msg, parent |-> HeadHash(rp), tree |-> rp.index,
                   author |-> ConfigAuthor]
             cs2 == Append(cs, c)
         IN  [cs |-> cs2, rp |-> SetHEADCommit(rp, Len(cs2)), err |-> "nil"]

\* The repository a remote URL names: a directory of the disk holding one.
HasRepoAt(w, url) == url \in FsPaths /\ w.dirs[url] \in {"plain", "bare"}

\* Remote.fetch with the default refspec +refs/heads/*:refs/remotes/origin/*:
\* the remote-tracking references follow the remote's branches.  head is the
\* hash the remote's HEAD resolves to.
EngFetch(w, rp) ==
    IF ~HasRepoAt(w, rp.origin)
    THEN [rp |-> rp, head |-> 0, err |-> "ErrRepositoryNotFound"]
    ELSE LET rem == w.fsRepo[rp.origin]
         IN  IF \A b \in Branches : rem.refs[b] = 0
             THEN [rp |-> rp, head |-> 0, err |-> "ErrEmptyRemoteRepository"]
             ELSE LET tracked == [b \in Branches |->
                                    IF rem.refs[b] # 0 THEN rem.refs[b]
                                    ELSE rp.remoteRefs[b]]
                  IN  [rp |-> [rp EXCEPT !.remoteRefs = tracked],
                       head |-> HeadHash(rem),
                       err |-> IF tracked = rp.remoteRefs
                               THEN "NoErrAlreadyUpToDate" ELSE "nil"]

\* Worktree.Pull that moves HEAD and leaves index and working tree.
EngPull_NoReset(w, rp, wt) ==
    IF rp.origin = NoUrl
    THEN [rp |-> rp, wt |-> wt, err |-> "ErrRemoteNotFound"]
    ELSE LET f == EngFetch(w, rp)
             head == HeadHash(f.rp)
         IN  IF f.err \notin {"nil", "NoErrAlreadyUpToDate"}
             THEN [rp |-> f.rp, wt |-> wt, err |-> f.err]
             ELSE IF f.head = 0
             THEN [rp |-> f.rp, wt |-> wt, err |-> "ErrReferenceNotFound"]
             ELSE IF head # 0 /\ f.err = "NoErrAlreadyUpToDate"
                     /\ IsFastForward(w.commits, f.head, head)
             THEN [rp |-> f.rp, wt |-> wt, err |-> "NoErrAlreadyUpToDate"]
             ELSE IF head # 0 /\ ~IsFastForward(w.commits, head, f.head)
             THEN [rp |-> f.rp, wt |-> wt, err |-> "ErrNonFastForwardUpdate"]
             ELSE [rp |-> SetHEADCommit(f.rp, f.head), wt |-> wt, err |-> "nil"]

\* Worktree.Pull(&PullOptions{RemoteName: origin}): fetch, then fast-forward
\* HEAD to the remote's HEAD and reset the index and the working tree to it.
EngPull(w, rp, wt) ==
    IF rp.origin = NoUrl
    THEN [rp |-> rp, wt |-> wt, err |-> "ErrRemoteNotFound"]
    ELSE LET f == EngFetch(w, rp)
             head == HeadHash(f.rp)
         IN  IF f.err \notin {"nil", "NoErrAlreadyUpToDate"}
             THEN [rp |-> f.rp, wt |-> wt, err |-> f.err]
             ELSE IF f.head = 0
             THEN [rp |-> f.rp, wt |-> wt, err |-> "ErrReferenceNotFound"]
             ELSE IF head # 0 /\ f.err = "NoErrAlreadyUpToDate"
                     /\ IsFastForward(w.commits, f.head, head)
             THEN [rp |-> f.rp, wt |-> wt, err |-> "NoErrAlreadyUpToDate"]
             ELSE IF head # 0 /\ ~IsFastForward(w.commits, head, f.head)
             THEN [rp |-> f.rp, wt |-> wt, err |-> "ErrNonFastForwardUpdate"]
             ELSE EngReset(w.commits, SetHEADCommit(f.rp, f.head), wt,
                           "merge", f.head)

\* Remote.Push(&PushOptions{RemoteName: origin}) with the default refspec
\* refs/heads/*:refs/heads/*: every local branch is sent; a branch the remote
\* holds at a commit that is no ancestor of the local one refuses the push.
EngPush(w, rp) ==
    IF ~HasRepoAt(w, rp.origin)
    THEN [w |-> w, rp |-> rp, err |-> "ErrRepositoryNotFound"]
    ELSE LET rem == w.fsRepo[rp.origin]
             send == {b \in Branches : rp.refs[b] # 0 /\ rp.refs[b] # rem.refs[b]}
         IN  IF send = {}
             THEN [w |-> w, rp |-> rp, err |-> "NoErrAlreadyUpToDate"]
             ELSE IF \E b \in send : rem.refs[b] # 0
                        /\ ~IsFastForward(w.commits, rem.refs[b], rp.refs[b])
             THEN [w |-> w, rp |-> rp, err |-> "ErrNonFastForwardUpdate"]
             ELSE LET pushed == [b \in Branches |->
                                   IF b \in send THEN rp.refs[b] ELSE rem.refs[b]]
                      tracked == [b \in Branches |->
                                    IF b \in send THEN rp.refs[b]
                                    ELSE rp.remoteRefs[b]]
                  IN  [w |-> [w EXCEPT !.fsRepo[rp.origin].refs = pushed],
                       rp |-> [rp EXCEPT !.remoteRefs = tracked],
                       err |-> "nil"]

\* Repository.Log of the commits of HEAD only.
LogAll_HeadOnly(cs, rp) == Ancestors(cs, HeadHash(rp))

\* Repository.Log(&LogOptions{All: true}): the commits reachable from HEAD
\* and from every reference, each once.
LogAll(cs, rp) ==
    Ancestors(cs, HeadHash(rp))
        \cup UNION {Ancestors(cs, rp.refs[b]) : b \in Branches}
        \cup UNION {Ancestors(cs, rp.remoteRefs[b]) : b \in Branches}

RECURSIVE NewestFirst(_)
\* A set of hashes as a sequence, newest commit first.
NewestFirst(S) ==
    IF S = {} THEN <<>>
    ELSE LET m == CHOOSE x \in S : \A y \in S : y <= x
         IN  <<m>> \o NewestFirst(S \ {m})

\* ---------------------------------------------------------------- GitClient
\* The result of an engine call on the client's repository, stored back.
Stored(w, r, res) == [w |-> Put(w, r, res.rp, res.wt), err |-> res.err]

GetInitType(opts) == IF opts.IsMem THEN "mem" ELSE "fs"

\* GetMemStorageAndMemFs that makes a storage and a filesystem on every call.
GetMemStorageAndMemFs_AlwaysNew(w, key) ==
    [st |-> w.nextObj, fs |-> w.nextObj,
     w |-> [w EXCEPT !.GitMemStorages[key] = w.nextObj,
                     !.GitMemFileSystem[key] = w.nextObj,
                     !.memStore[w.nextObj] = NoRepo,
                     !.memFs[w.nextObj] = NoFiles,
                     !.nextObj = @ + 1]]

\* GetMemStorageAndMemFs: the registered storage and filesystem of a key,
\* each created and registered when the key has none.
GetMemStorageAndMemFs(w, key) ==
    LET newSt == w.GitMemStorages[key] = 0
        newFs == w.GitMemFileSystem[key] = 0
        st == IF newSt THEN w.nextObj ELSE w.GitMemStorages[key]
        fs == IF newFs THEN w.nextObj ELSE w.GitMemFileSystem[key]
    IN  [st |-> st, fs |-> fs,
         w |-> [w EXCEPT !.GitMemStorages[key] = st,
                         !.GitMemFileSystem[key] = fs,
                         !.memStore[st] = IF newSt THEN NoRepo ELSE @,
                         !.memFs[fs] = IF newFs THEN NoFiles ELSE @,
                         !.nextObj = IF newSt \/ newFs THEN @ + 1 ELSE @]]

\* InitMem that does not validate its options.
InitMem_NoValidation(w, opts) ==
    LET g == GetMemStorageAndMemFs(w, opts.Path)
        r == [ok |-> TRUE, mem |-> TRUE, path |-> opts.Path,
              st |-> g.st, wt |-> g.fs]
    IN  IF g.w.memStore[g.st].exists
        THEN [w |-> g.w, r |-> r, err |-> "nil"]
        ELSE [w |-> [g.w EXCEPT !.memStore[g.st] = FreshRepo],
              r |-> r, err |-> "nil"]

\* InitMem: git.Init on the registered storage, git.Open when it already
\* holds a repository.
InitMem(w, opts) ==
    IF ~opts.IsMem \/ opts.Path = ""
    THEN [w |-> w, r |-> NilRepository, err |-> "ErrInvalidOptions"]
    ELSE LET g == GetMemStorageAndMemFs(w, opts.Path)
             r == [ok |-> TRUE, mem |-> TRUE, path |-> opts.Path,
                   st |-> g.st, wt |-> g.fs]
         IN  IF g.w.memStore[g.st].exists
             THEN [w |-> g.w, r |-> r, err |-> "nil"]
             ELSE [w |-> [g.w EXCEPT !.memStore[g.st] = FreshRepo],
                   r |-> r, err |-> "nil"]

\* InitFs with the check for .git lost: every open initialises the directory.
InitFs_AlwaysInit(w, opts) ==
    IF opts.Path = ""
    THEN [w |-> w, r |-> NilRepository, err |-> "ErrInvalidOptions"]
    ELSE [w |-> [w EXCEPT !.dirs[opts.Path] = IF opts.IsBare THEN "bare" ELSE "plain",
                          !.fsRepo[opts.Path] = FreshRepo,
                          !.fsTree[opts.Path] = NoFiles],
          r |-> [ok |-> TRUE, mem |-> FALSE, path |-> opts.Path, st |-> 0, wt |-> 0],
          err |-> "nil"]

\* InitFs: create the directory, then git.PlainInit when it has no .git and
\* git.PlainOpen when it has.  PlainInit of a bare repository stores it in the
\* directory itself and fails when the directory already holds one.
InitFs(w, opts) ==
    IF opts.Path = ""
    THEN [w |-> w, r |-> NilRepository, err |-> "ErrInvalidOptions"]
    ELSE IF w.dirs[opts.Path] = "gone"
    THEN [w |-> w, r |-> NilRepository, err |-> "ErrGetwd"]
    ELSE LET p == opts.Path
             made == IF w.dirs[p] = "none" THEN [w EXCEPT !.dirs[p] = "empty"] ELSE w
             r == [ok |-> TRUE, mem |-> FALSE, path |-> p, st |-> 0, wt |-> 0]
         IN  IF made.dirs[p] # "plain"
             THEN IF opts.IsBare /\ made.dirs[p] = "bare"
                  THEN [w |-> made, r |-> NilRepository,
                        err |-> "ErrRepositoryAlreadyExists"]
                  ELSE [w |-> [made EXCEPT
                                 !.dirs[p] = IF opts.IsBare THEN "bare" ELSE "plain",
                                 !.fsRepo[p] = FreshRepo,
                                 !.fsTree[p] = NoFiles],
                        r |-> r, err |-> "nil"]
             ELSE [w |-> made, r |-> r, err |-> "nil"]

\* CreateRemote(origin, url).
CreateRemote(w, c, url) ==
    IF c.opts.IsBare
    THEN [w |-> w, err |-> "ErrInvalidActionsForBareRepo"]
    ELSE LET rp == RepoOf(w, c.r)
         IN  IF rp.origin # NoUrl
             THEN [w |-> w, err |-> "ErrRemoteExists"]
             ELSE [w |-> Put(w, c.r, [rp EXCEPT !.origin = url], TreeOf(w, c.r)),
                   err |-> "nil"]

\* The transport.AuthMethod values: none, http.BasicAuth and ssh.PublicKeys
\* (key names the file the signer was parsed from, passphrase tells whether it
\* was parsed with one).
NilAuth == [method |-> "nil", user |-> "", password |-> "", key |-> "",
            passphrase |-> FALSE]
BasicAuth(username, password) ==
    [method |-> "BasicAuth", user |-> username, password |-> password,
     key |-> "", passphrase |-> FALSE]
PublicKeys(key, withPassphrase) ==
    [method |-> "PublicKeys", user |-> "git", password |-> "", key |-> key,
     passphrase |-> withPassphrase]

\* What a call that never reached the transport handed it.
NotInvoked == "not invoked"

\* ssh.ParsePrivateKey of the file at path.
ParsePrivateKey(path) ==
    IF KeyFile(path) = "plain" THEN "nil"
    ELSE IF KeyFile(path) = "encrypted" THEN "PassphraseMissingError"
    ELSE "ErrNoKeyFound"

\* ssh.ParsePrivateKeyWithPassphrase of the file at path.
ParsePrivateKeyWithPassphrase(path, passphrase) ==
    IF KeyFile(path) = "encrypted"
    THEN IF passphrase = KeyPassphrase THEN "nil" ELSE "ErrIncorrectPassword"
    ELSE IF KeyFile(path) = "plain" THEN "ErrNotEncryptedKey"
    ELSE "ErrNoKeyFound"

\* getGitAuth that parses every key without a passphrase.
getGitAuth_NoPassphrase(authType, username, password, privateKeyPath) ==
    IF authType = "GitAuthTypeNone" THEN [auth |-> NilAuth, err |-> "nil"]
    ELSE IF authType = "GitAuthTypeHTTP"
    THEN [auth |-> BasicAuth(username, password), err |-> "nil"]
    ELSE IF authType = "GitAuthTypeSSH"
    THEN IF KeyFile(privateKeyPath) = "missing"
         THEN [auth |-> NilAuth, err |-> "ErrNotExist"]
         ELSE LET e == ParsePrivateKey(privateKeyPath)
              IN  IF e # "nil" THEN [auth |-> NilAuth, err |-> e]
                  ELSE [auth |-> PublicKeys(privateKeyPath, FALSE), err |-> "nil"]
    ELSE [auth |-> NilAuth, err |-> "ErrUnsupportedType"]

\* getGitAuth: the authentication method of the configuration.
getGitAuth(authType, username, password, privateKeyPath) ==
    IF authType = "GitAuthTypeNone" THEN [auth |-> NilAuth, err |-> "nil"]
    ELSE IF authType = "GitAuthTypeHTTP"
    THEN [auth |-> BasicAuth(username, password), err |-> "nil"]
    ELSE IF authType = "GitAuthTypeSSH"
    THEN IF KeyFile(privateKeyPath) = "missing"
         THEN [auth |-> NilAuth, err |-> "ErrNotExist"]
         ELSE LET e == IF password # ""
                       THEN ParsePrivateKeyWithPassphrase(privateKeyPath, password)
                       ELSE ParsePrivateKey(privateKeyPath)
              IN  IF e # "nil" THEN [auth |-> NilAuth, err |-> e]
                  ELSE [auth |-> PublicKeys(privateKeyPath, password # ""),
                        err |-> "nil"]
    ELSE [auth |-> NilAuth, err |-> "ErrUnsupportedType"]

\* The authentication of a client's configuration.
AuthOf(c) ==
    getGitAuth(c.opts.AuthType, c.opts.Username, c.opts.Password,
               c.opts.PrivateKeyPath)

\* Pull that tolerates an empty remote only.
Pull_UpToDateIsError(w, c) ==
    IF c.opts.IsBare
    THEN [w |-> w, err |-> "ErrInvalidActionsForBareRepo", auth |-> NotInvoked]
    ELSE IF AuthOf(c).err # "nil"
    THEN [w |-> w, err |-> AuthOf(c).err, auth |-> NotInvoked]
    ELSE LET res == Stored(w, c.r, EngPull(w, RepoOf(w, c.r), TreeOf(w, c.r)))
         IN  [w |-> res.w,
              err |-> IF res.err = "ErrEmptyRemoteRepository" THEN "nil" ELSE res.err,
              auth |-> AuthOf(c).auth]

\* Pull(origin): the engine's pull; an empty remote and an up-to-date working
\* tree are no errors.
Pull(w, c) ==
    IF c.opts.IsBare
    THEN [w |-> w, err |-> "ErrInvalidActionsForBareRepo", auth |-> NotInvoked]
    ELSE IF AuthOf(c).err # "nil"
    THEN [w |-> w, err |-> AuthOf(c).err, auth |-> NotInvoked]
    ELSE LET res == Stored(w, c.r, EngPull(w, RepoOf(w, c.r), TreeOf(w, c.r)))
         IN  [w |-> res.w,
              err |-> IF res.err \in {"ErrEmptyRemoteRepository",
                                      "NoErrAlreadyUpToDate"}
                      THEN "nil" ELSE res.err,
              auth |-> AuthOf(c).auth]

\* Push(origin).
Push(w, c) ==
    IF c.opts.IsBare
    THEN [w |-> w, err |-> "ErrInvalidActionsForBareRepo", auth |-> NotInvoked]
    ELSE LET rp == RepoOf(w, c.r)
         IN  IF rp.origin = NoUrl
             THEN [w |-> w, err |-> "ErrRemoteNotFound", auth |-> NotInvoked]
             ELSE IF AuthOf(c).err # "nil"
             THEN [w |-> w, err |-> AuthOf(c).err, auth |-> NotInvoked]
             ELSE LET res == EngPush(w, rp)
                  IN  [w |-> Put(res.w, c.r, res.rp, TreeOf(w, c.r)),
                       err |-> res.err, auth |-> AuthOf(c).auth]

\* Init that pulls without creating the remote.
PullOnInit_NoRemote(w, c) ==
    IF ~c.opts.IsBare /\ c.opts.RemoteUrl # NoUrl /\ RepoOf(w, c.r).origin = NoUrl
    THEN Pull(w, c)
    ELSE [w |-> w, err |-> "nil"]

\* Init that creates origin and pulls for a bare client too.
PullOnInit_AlsoBare(w, c) ==
    IF c.opts.RemoteUrl # NoUrl /\ RepoOf(w, c.r).origin = NoUrl
    THEN LET cr == CreateRemote(w, c, c.opts.RemoteUrl)
         IN  IF cr.err # "nil" THEN cr ELSE Pull(cr.w, c)
    ELSE [w |-> w, err |-> "nil"]

\* Init of a client whose repository handle is r: when the client is not
\* bare, has a remote URL and the repository has no remote, create origin and
\* pull.
PullOnInit(w, c) ==
    IF ~c.opts.IsBare /\ c.opts.RemoteUrl # NoUrl /\ RepoOf(w, c.r).origin = NoUrl
    THEN LET cr == CreateRemote(w, c, c.opts.RemoteUrl)
         IN  IF cr.err # "nil" THEN cr ELSE Pull(cr.w, c)
    ELSE [w |-> w, err |-> "nil"]

\* NewGitClient(options): the client and the error of its Init.  An empty
\* PrivateKeyPath becomes the default path.
ClientInit(w, options) ==
    LET opts == IF options.PrivateKeyPath = ""
                THEN [options EXCEPT !.PrivateKeyPath = DefaultKeyPath]
                ELSE options
        i == IF GetInitType(opts) = "fs" THEN InitFs(w, opts) ELSE InitMem(w, opts)
        c == [opts |-> opts, r |-> i.r]
    IN  IF i.err # "nil"
        THEN [w |-> i.w, c |-> c, err |-> i.err]
        ELSE LET p == PullOnInit(i.w, c)
             IN  [w |-> p.w, c |-> c, err |-> p.err]

\* Repository.Worktree: a repository stored in the directory itself has none.
HasWorktree(w, r) == r.mem \/ w.dirs[r.path] = "plain"

\* getBranchAndHashAndIsCreateFromArgs: the branch and the hash of the
\* arguments; with fewer than two arguments both are zero values (and the
\* error it returns is overwritten by Checkout before it is read).
BranchOfArgs(args) == IF args.len < 2 THEN "" ELSE args.branch
HashOfArgs(args) == IF args.len < 2 THEN 0 ELSE args.hash

\* Checkout(args...): args is [len, branch, hash], branch "" and hash 0 being
\* nil.  A hash that is not the zero hash selects the hash of HEAD.
Checkout(w, c, args) ==
    IF c.opts.IsBare
    THEN [w |-> w, err |-> "ErrInvalidActionsForBareRepo"]
    ELSE IF ~HasWorktree(w, c.r)
    THEN [w |-> w, err |-> "ErrIsBareRepository"]
    ELSE LET rp == RepoOf(w, c.r)
             branch == BranchOfArgs(args)
             hash == HashOfArgs(args)
         IN  IF hash # 0 /\ HeadHash(rp) = 0
             THEN [w |-> w, err |-> "ErrReferenceNotFound"]
             ELSE Stored(w, c.r,
                         EngCheckout(w.commits, rp, TreeOf(w, c.r), branch,
                                     IF hash = 0 THEN 0 ELSE HeadHash(rp)))

\* CheckoutBranch that creates the branch in the config and sets no reference.
CheckoutBranch_NoReference(w, c, branch) ==
    IF c.opts.IsBare
    THEN [w |-> w, err |-> "ErrInvalidActionsForBareRepo"]
    ELSE LET rp == RepoOf(w, c.r)
         IN  Checkout(Put(w, c.r, [rp EXCEPT !.cfgBranches = @ \cup {branch}],
                          TreeOf(w, c.r)),
                      c, [len |-> 2, branch |-> branch, hash |-> 0])

\* CheckoutBranch(branch): a branch the config does not hold is created in
\* the config and its reference set to the hash of HEAD, when HEAD resolves.
CheckoutBranch(w, c, branch) ==
    IF c.opts.IsBare
    THEN [w |-> w, err |-> "ErrInvalidActionsForBareRepo"]
    ELSE LET rp == RepoOf(w, c.r)
             created ==
                 IF branch \in rp.cfgBranches THEN rp
                 ELSE [rp EXCEPT !.cfgBranches = @ \cup {branch},
                                 !.refs[branch] =
                                     IF HeadHash(rp) # 0 THEN HeadHash(rp) ELSE @]
         IN  Checkout(Put(w, c.r, created, TreeOf(w, c.r)), c,
                      [len |-> 2, branch |-> branch, hash |-> 0])

\* CheckoutHash(hash).
CheckoutHash(w, c, hash) ==
    IF c.opts.IsBare
    THEN [w |-> w, err |-> "ErrInvalidActionsForBareRepo"]
    ELSE Checkout(w, c, [len |-> 2, branch |-> "", hash |-> hash])

\* Commit(msg).
Commit(w, c, msg) ==
    IF c.opts.IsBare
    THEN [w |-> w, err |-> "ErrInvalidActionsForBareRepo"]
    ELSE IF ~HasWorktree(w, c.r)
    THEN [w |-> w, err |-> "ErrIsBareRepository"]
    ELSE LET res == EngCommit(w.commits, RepoOf(w, c.r), msg)
         IN  [w |-> [Put(w, c.r, res.rp, TreeOf(w, c.r)) EXCEPT !.commits = res.cs],
              err |-> res.err]

\* CommitAll that stages before any check of the configuration.
CommitAll_NoBareCheck(w, c, msg) ==
    IF ~HasWorktree(w, c.r)
    THEN [w |-> w, err |-> "ErrIsBareRepository"]
    ELSE LET wt == TreeOf(w, c.r)
         IN  Commit(Put(w, c.r, EngAddAll(RepoOf(w, c.r), wt), wt), c, msg)

\* CommitAll(msg): add every file, then Commit.
CommitAll(w, c, msg) ==
    IF c.opts.IsBare
    THEN [w |-> w, err |-> "ErrInvalidActionsForBareRepo"]
    ELSE IF ~HasWorktree(w, c.r)
    THEN [w |-> w, err |-> "ErrIsBareRepository"]
    ELSE LET wt == TreeOf(w, c.r)
         IN  Commit(Put(w, c.r, EngAddAll(RepoOf(w, c.r), wt), wt), c, msg)

\* getResetMode: an int8 gives the reset mode numbered 0 (mixed), a
\* git.ResetMode gives itself, any other type is unsupported.
getResetMode(arg) ==
    IF arg.type = "int8" THEN [mode |-> "mixed", err |-> "nil"]
    ELSE IF arg.type = "ResetMode" THEN [mode |-> arg.mode, err |-> "nil"]
    ELSE [mode |-> "mixed", err |-> "ErrUnsupportedType"]

\* getResetModeFromArgs: a nil argument keeps the zero mode (mixed).
getResetModeFromArgs(args) ==
    IF args.len < 1 THEN [mode |-> "mixed", err |-> "ErrInvalidArgsLength"]
    ELSE IF args.type = "nil" THEN [mode |-> "mixed", err |-> "nil"]
    ELSE getResetMode(args)

\* Reset(mode): the engine's reset to HEAD.
Reset(w, c, args) ==
    IF c.opts.IsBare
    THEN [w |-> w, err |-> "ErrInvalidActionsForBareRepo"]
    ELSE LET m == getResetModeFromArgs(args)
         IN  IF m.err # "nil" THEN [w |-> w, err |-> m.err]
             ELSE IF ~HasWorktree(w, c.r)
             THEN [w |-> w, err |-> "ErrIsBareRepository"]
             ELSE Stored(w, c.r, EngReset(w.commits, RepoOf(w, c.r),
                                          TreeOf(w, c.r), m.mode, 0))

\* filepath.Abs of a relative path joins it to the working directory of the
\* process and fails when that directory has been removed.  The paths of
\* FsPaths are relative, as "./tmp/test_repo" in the tests.
WorkingDirectoryGone(w) == \E p \in FsPaths : w.dirs[p] = "gone"

\* os.RemoveAll(filepath.Abs("")): the empty path is the working directory
\* itself; it is removed with every directory under it.
RemoveWorkingDirectory(w) ==
    [w EXCEPT !.dirs = [p \in FsPaths |-> "gone"],
              !.fsRepo = [p \in FsPaths |-> NoRepo],
              !.fsTree = [p \in FsPaths |-> NoFiles]]

\* Dispose that evicts the storage of the key and keeps its filesystem.
Dispose_KeepsFileSystem(w, c) ==
    IF GetInitType(c.opts) = "fs"
    THEN IF WorkingDirectoryGone(w)
         THEN [w |-> w, err |-> "ErrGetwd"]
         ELSE [w |-> IF c.opts.Path \in FsPaths
                     THEN [w EXCEPT !.dirs[c.opts.Path] = "none",
                                    !.fsRepo[c.opts.Path] = NoRepo,
                                    !.fsTree[c.opts.Path] = NoFiles]
                     ELSE RemoveWorkingDirectory(w),
               err |-> "nil"]
    ELSE [w |-> IF c.opts.Path \in MemKeys
                THEN [w EXCEPT !.GitMemStorages[c.opts.Path] = 0]
                ELSE w,
          err |-> "nil"]

\* Dispose: remove the directory at filepath.Abs(c.opts.Path), or the
\* registry entries of the key.
Dispose(w, c) ==
    IF GetInitType(c.opts) = "fs"
    THEN IF WorkingDirectoryGone(w)
         THEN [w |-> w, err |-> "ErrGetwd"]
         ELSE [w |-> IF c.opts.Path \in FsPaths
                     THEN [w EXCEPT !.dirs[c.opts.Path] = "none",
                                    !.fsRepo[c.opts.Path] = NoRepo,
                                    !.fsTree[c.opts.Path] = NoFiles]
                     ELSE RemoveWorkingDirectory(w),
               err |-> "nil"]
    ELSE [w |-> IF c.opts.Path \in MemKeys
                THEN [w EXCEPT !.GitMemStorages[c.opts.Path] = 0,
                               !.GitMemFileSystem[c.opts.Path] = 0]
                ELSE w,
          err |-> "nil"]

\* GetLogs: one GitLog per commit of the engine's log of all references.  The
\* timestamp of a commit is the time of its creation, its place in the table.
GetLogs(w, c) ==
    LET hs == NewestFirst(LogAll(w.commits, RepoOf(w, c.r)))
    IN  [logs |-> [k \in 1..Len(hs) |->
                     [Msg |-> w.commits[hs[k]].msg, Branch |-> "",
                      AuthorName |-> w.commits[hs[k]].author.Name,
                      AuthorEmail |-> w.commits[hs[k]].author.Email,
                      Timestamp |-> hs[k]]],
         err |-> "nil", w |-> w]

\* ---------------------------------------------------------------- calls
\* A client whose repository handle can be used: Init gave it one and the
\* directory it names is still there.
Usable(c) ==
    /\ c.r.ok
    /\ c.r.mem \/ dirs[c.r.path] \in {"plain", "bare"}

\* c, err := NewGitClient(&opts)
NewGitClient(opts) ==
    /\ opts \in scenario
    /\ Cardinality(clients) < MaxClients
    /\ (opts.IsMem /\ opts.Path \in MemKeys /\ GitMemStorages[opts.Path] = 0)
          => nextObj <= MaxObj
    /\ LET res == ClientInit(World, opts)
       IN  /\ Apply(res.w)
           /\ clients' = clients \cup {res.c}
           /\ UNCHANGED <<scenario, inits>>

\* ioutil.WriteFile into the working tree of client c (the tests' way of
\* changing files).
WriteFile(c, f, x) ==
    /\ Usable(c) /\ HasWorktree(World, c.r)
    /\ Apply(Put(World, c.r, RepoOf(World, c.r),
                 [TreeOf(World, c.r) EXCEPT ![f] = x]))
    /\ UNCHANGED <<clients, scenario, inits>>

\* A call returns: what it did to the world stays.
Returned(res) ==
    /\ Apply(res.w)
    /\ UNCHANGED <<clients, scenario, inits>>

CallCommit(c, msg) ==
    /\ Usable(c) /\ Len(commits) < MaxCommits
    /\ Returned(Commit(World, c, msg))

CallCommitAll(c, msg) ==
    /\ Usable(c) /\ Len(commits) < MaxCommits
    /\ Returned(CommitAll(World, c, msg))

CallCheckoutBranch(c, b) ==
    /\ Usable(c)
    /\ Returned(CheckoutBranch(World, c, b))

CallCheckoutHash(c, h) ==
    /\ Usable(c)
    /\ Returned(CheckoutHash(World, c, h))

CallCheckout(c, args) ==
    /\ Usable(c)
    /\ Returned(Checkout(World, c, args))

CallReset(c, args) ==
    /\ Usable(c)
    /\ Returned(Reset(World, c, args))

CallPull(c) ==
    /\ Usable(c)
    /\ Returned(Pull(World, c))

CallPush(c) ==
    /\ Usable(c)
    /\ Returned(Push(World, c))

CallDispose(c) ==
    /\ Returned(Dispose(World, c))

\* ------------------------------------------------- Init, step by step
\* Init of an in-memory client as the steps of GetMemStorageAndMemFs that
\* other goroutines can interleave with: each Load and each Store of the two
\* sync.Maps is one step.

\* Everything but the registry, the heap counter and the goroutines.
RestOfWorld == <<dirs, fsRepo, fsTree, memFs, commits, scenario>>

\* go NewGitClient(&opts) with IsMem: the goroutine enters Init.
BeginInit(p, opts) ==
    /\ inits[p].pc = "idle"
    /\ opts \in scenario /\ opts.IsMem /\ opts.Path \in MemKeys
    /\ Cardinality(clients) < MaxClients
    /\ inits' = [inits EXCEPT ![p] = [pc |-> "loadStorage", opts |-> opts,
                                      st |-> 0, fs |-> 0]]
    /\ UNCHANGED <<RestOfWorld, GitMemStorages, GitMemFileSystem, memStore,
                   nextObj, clients>>

\* storageItem, ok := GitMemStorages.Load(key); a miss makes a new storage.
LoadStorage(p) ==
    /\ inits[p].pc = "loadStorage"
    /\ LET item == GitMemStorages[inits[p].opts.Path]
       IN  IF item # 0
           THEN /\ inits' = [inits EXCEPT ![p].st = item, ![p].pc = "loadFs"]
                /\ UNCHANGED <<nextObj, memStore>>
           ELSE /\ nextObj <= HeapSize
                /\ inits' = [inits EXCEPT ![p].st = nextObj, ![p].pc = "storeStorage"]
                /\ memStore' = [memStore EXCEPT ![nextObj] = NoRepo]
                /\ nextObj' = nextObj + 1
    /\ UNCHANGED <<RestOfWorld, GitMemStorages, GitMemFileSystem, clients>>

\* GitMemStorages.Store(key, storage)
StoreStorage(p) ==
    /\ inits[p].pc = "storeStorage"
    /\ GitMemStorages' = [GitMemStorages EXCEPT ![inits[p].opts.Path] = inits[p].st]
    /\ inits' = [inits EXCEPT ![p].pc = "loadFs"]
    /\ UNCHANGED <<RestOfWorld, GitMemFileSystem, memStore, nextObj, clients>>

\* fsItem, ok := GitMemFileSystem.Load(key); a miss makes a new filesystem.
LoadFs(p) ==
    /\ inits[p].pc = "loadFs"
    /\ LET item == GitMemFileSystem[inits[p].opts.Path]
       IN  IF item # 0
           THEN /\ inits' = [inits EXCEPT ![p].fs = item, ![p].pc = "gitInit"]
                /\ UNCHANGED nextObj
           ELSE /\ nextObj <= HeapSize
                /\ inits' = [inits EXCEPT ![p].fs = nextObj, ![p].pc = "storeFs"]
                /\ nextObj' = nextObj + 1
    /\ UNCHANGED <<dirs, fsRepo, fsTree, memFs, commits, scenario,
                   GitMemStorages, GitMemFileSystem, memStore, clients>>

\* GitMemFileSystem.Store(key, fs)
StoreFs(p) ==
    /\ inits[p].pc = "storeFs"
    /\ GitMemFileSystem' = [GitMemFileSystem EXCEPT ![inits[p].opts.Path] = inits[p].fs]
    /\ inits' = [inits EXCEPT ![p].pc = "gitInit"]
    /\ UNCHANGED <<RestOfWorld, GitMemStorages, memStore, nextObj, clients>>

\* c.r, err = git.Init(storage, wt), git.Open when the storage holds a
\* repository; Init returns and NewGitClient hands the client to its caller.
GitInit(p) ==
    /\ inits[p].pc = "gitInit"
    /\ memStore' = [memStore EXCEPT ![inits[p].st] =
                        IF @.exists THEN @ ELSE FreshRepo]
    /\ clients' = clients \cup
           {[opts |-> inits[p].opts,
             r |-> [ok |-> TRUE, mem |-> TRUE, path |-> inits[p].opts.Path,
                    st |-> inits[p].st, wt |-> inits[p].fs]]}
    /\ inits' = [inits EXCEPT ![p].pc = "done"]
    /\ UNCHANGED <<RestOfWorld, GitMemStorages, GitMemFileSystem, nextObj>>

\* The caller of the goroutine goes on with the client; the goroutine can
\* construct another.
EndInit(p) ==
    /\ inits[p].pc = "done"
    /\ inits' = [inits EXCEPT ![p] = Idle]
    /\ UNCHANGED <<RestOfWorld, GitMemStorages, GitMemFileSystem, memStore,
                   nextObj, clients>>

\* ---------------------------------------------- Dispose, step by step
\* go c.Dispose() of an in-memory client: the goroutine enters Dispose.
BeginDispose(p, c) ==
    /\ inits[p].pc = "idle"
    /\ c \in clients
    /\ GetInitType(c.opts) = "mem" /\ c.opts.Path \in MemKeys
    /\ inits' = [inits EXCEPT ![p] = [pc |-> "deleteStorage", opts |-> c.opts,
                                      st |-> 0, fs |-> 0]]
    /\ UNCHANGED <<RestOfWorld, GitMemStorages, GitMemFileSystem, memStore,
                   nextObj, clients>>

\* GitMemStorages.Delete(c.opts.Path)
DeleteStorage(p) ==
    /\ inits[p].pc = "deleteStorage"
    /\ GitMemStorages' = [GitMemStorages EXCEPT ![inits[p].opts.Path] = 0]
    /\ inits' = [inits EXCEPT ![p].pc = "deleteFs"]
    /\ UNCHANGED <<RestOfWorld, GitMemFileSystem, memStore, nextObj, clients>>

\* GitMemFileSystem.Delete(c.opts.Path); Dispose returns nil.
DeleteFs(p) ==
    /\ inits[p].pc = "deleteFs"
    /\ GitMemFileSystem' = [GitMemFileSystem EXCEPT ![inits[p].opts.Path] = 0]
    /\ inits' = [inits EXCEPT ![p] = Idle]
    /\ UNCHANGED <<RestOfWorld, GitMemStorages, memStore, nextObj, clients>>

\* ---------------------------------------------------------------- inputs
Options(path, url, bare, mem) ==
    [Path |-> path, RemoteUrl |-> url, IsBare |-> bare, IsMem |-> mem,
     AuthType |-> "GitAuthTypeNone", Username |-> "", Password |-> "",
     PrivateKeyPath |-> DefaultKeyPath]

\* DefaultGitOptions, which NewGitClient(nil) constructs with.
DefaultGitOptions == Options("", NoUrl, FALSE, FALSE)

\* Options with an authentication.
WithAuth(o, type, username, password, key) ==
    [o EXCEPT !.AuthType = type, !.Username = username, !.Password = password,
              !.PrivateKeyPath = key]

\* Hashes a caller can name: the zero hash and the commits made so far.
Hashes == 0..Len(commits)

\* Arguments a caller gives Checkout: none, or a branch ("" is nil) and a hash
\* (0 is nil or the zero hash).
CheckoutArgs ==
    {[len |-> 2, branch |-> b, hash |-> h] : b \in Branches \cup {""}, h \in Hashes}
      \cup {[len |-> 0, branch |-> "", hash |-> 0]}

\* The modes of the engine, numbered 0 to 3 in this order.
ResetModes == {"mixed", "hard", "merge", "soft"}

\* Arguments a caller gives Reset: none, nil, a git.ResetMode, an int8 holding
\* the number of a mode, or a value of another type (a string).
ResetArgs ==
    {[len |-> 1, type |-> t, mode |-> m] :
        t \in {"ResetMode", "int8"}, m \in ResetModes}
      \cup {[len |-> 1, type |-> t, mode |-> "mixed"] : t \in {"nil", "string"}}
      \cup {[len |-> 0, type |-> "nil", mode |-> "mixed"]}

\* The file the callers of most runs write; the callers of SpecReset write
\* every file.
OneFile == {"f"}

\* What every run starts from: an empty disk, an empty registry, no client.
Start(scenarios) ==
    /\ dirs = [p \in FsPaths |-> "none"]
    /\ fsRepo = [p \in FsPaths |-> NoRepo]
    /\ fsTree = [p \in FsPaths |-> NoFiles]
    /\ GitMemStorages = [k \in MemKeys |-> 0]
    /\ GitMemFileSystem = [k \in MemKeys |-> 0]
    /\ memStore = [o \in 1..HeapSize |-> NoRepo]
    /\ memFs = [o \in 1..HeapSize |-> NoFiles]
    /\ nextObj = 1
    /\ commits = <<>>
    /\ clients = {}
    /\ scenario \in scenarios
    /\ inits = [p \in Procs |-> Idle]

AllOptions ==
    {Options(p, u, b, m) : p \in FsPaths \cup {""}, u \in FsPaths \cup {NoUrl},
                           b \in BOOLEAN, m \in BOOLEAN}

\* ---------------------------------------------------------------- Spec
\* One repository and its working tree, on disk or in memory, without a
\* remote: commits, checkouts and resets.  In memory a second client is
\* configured bare on the same key.
WorkOptions ==
    {{Options("a", NoUrl, FALSE, FALSE)},
     {Options("a", NoUrl, FALSE, TRUE), Options("a", NoUrl, TRUE, TRUE)}}

Init == Start(WorkOptions)

Next ==
    \/ \E o \in AllOptions : NewGitClient(o)
    \/ \E c \in clients, f \in OneFile, x \in Contents : WriteFile(c, f, x)
    \/ \E c \in clients, m \in Msgs : CallCommit(c, m)
    \/ \E c \in clients, m \in Msgs : CallCommitAll(c, m)
    \/ \E c \in clients, b \in Branches : CallCheckoutBranch(c, b)
    \/ \E c \in clients, h \in Hashes : CallCheckoutHash(c, h)
    \/ \E c \in clients, a \in CheckoutArgs : CallCheckout(c, a)
    \/ \E c \in clients, a \in ResetArgs : CallReset(c, a)

Spec == Init /\ [][Next]_vars

\* ---------------------------------------------------------------- SpecLife
\* Opening, reopening and disposing: a working directory and a bare
\* directory, or a registry key opened by a client that is not bare and by
\* one that is.
LifeOptions ==
    {{Options("a", NoUrl, FALSE, FALSE), Options("r", NoUrl, TRUE, FALSE)},
     {Options("a", NoUrl, FALSE, TRUE), Options("a", NoUrl, TRUE, TRUE)}}

InitLife == Start(LifeOptions)

NextLife ==
    \/ \E o \in AllOptions : NewGitClient(o)
    \/ \E c \in clients, f \in OneFile, x \in Contents : WriteFile(c, f, x)
    \/ \E c \in clients, m \in Msgs : CallCommitAll(c, m)
    \/ \E c \in clients : CallDispose(c)

SpecLife == InitLife /\ [][NextLife]_vars

\* ---------------------------------------------------------------- SpecRemote
\* Two working repositories whose origin is the bare directory "r": both on
\* disk, or one on disk and one in memory.
RemoteOptions ==
    {{Options("r", NoUrl, TRUE, FALSE), Options("a", "r", FALSE, FALSE),
      Options("b", "r", FALSE, FALSE)},
     {Options("r", NoUrl, TRUE, FALSE), Options("a", "r", FALSE, FALSE),
      Options("a", "r", FALSE, TRUE)}}

InitRemote == Start(RemoteOptions)

NextRemote ==
    \/ \E o \in AllOptions : NewGitClient(o)
    \/ \E c \in clients, f \in OneFile, x \in Contents : WriteFile(c, f, x)
    \/ \E c \in clients, m \in Msgs : CallCommitAll(c, m)
    \/ \E c \in clients : CallPush(c)
    \/ \E c \in clients : CallPull(c)

SpecRemote == InitRemote /\ [][NextRemote]_vars

\* Resets of a working tree with two files: one client on disk writes files,
\* stages and commits them, and resets.
ResetOptions == {{Options("a", NoUrl, FALSE, FALSE)}}

InitReset == Start(ResetOptions)

NextReset ==
    \/ \E o \in AllOptions : NewGitClient(o)
    \/ \E c \in clients, f \in Files, x \in Contents : WriteFile(c, f, x)
    \/ \E c \in clients : CallCommitAll(c, "m1")
    \/ \E c \in clients, a \in ResetArgs : CallReset(c, a)

SpecReset == InitReset /\ [][NextReset]_vars

\* Two goroutines construct in-memory clients on one key at the same time,
\* again and again.
ConcOptions ==
    {{Options("a", NoUrl, FALSE, TRUE), Options("a", NoUrl, TRUE, TRUE)}}

InitConc == Start(ConcOptions)

NextConc ==
    \/ \E p \in Procs, o \in AllOptions : BeginInit(p, o)
    \/ \E p \in Procs : LoadStorage(p)
    \/ \E p \in Procs : StoreStorage(p)
    \/ \E p \in Procs : LoadFs(p)
    \/ \E p \in Procs : StoreFs(p)
    \/ \E p \in Procs : GitInit(p)
    \/ \E p \in Procs : EndInit(p)

SpecConc == InitConc /\ [][NextConc]_vars

\* Two goroutines construct and dispose in-memory clients on one key at the
\* same time.
PairOptions == {{Options("a", NoUrl, FALSE, TRUE)}}

InitPair == Start(PairOptions)

NextPair ==
    \/ \E p \in Procs, o \in AllOptions : BeginInit(p, o)
    \/ \E p \in Procs : LoadStorage(p)
    \/ \E p \in Procs : StoreStorage(p)
    \/ \E p \in Procs : LoadFs(p)
    \/ \E p \in Procs : StoreFs(p)
    \/ \E p \in Procs : GitInit(p)
    \/ \E p \in Procs : EndInit(p)
    \/ \E p \in Procs, c \in clients : BeginDispose(p, c)
    \/ \E p \in Procs : DeleteStorage(p)
    \/ \E p \in Procs : DeleteFs(p)

SpecPair == InitPair /\ [][NextPair]_vars

\* Disposing: a directory and a registry key of the same name, a second
\* directory, and the clients NewGitClient returns with ErrInvalidOptions for
\* the empty path.
DisposeOptions ==
    {{Options("a", NoUrl, FALSE, FALSE), Options("a", NoUrl, FALSE, TRUE),
      Options("b", NoUrl, FALSE, FALSE)},
     {Options("a", NoUrl, FALSE, FALSE), Options("a", NoUrl, FALSE, TRUE),
      DefaultGitOptions},
     {Options("a", NoUrl, FALSE, TRUE), Options("", NoUrl, FALSE, TRUE),
      Options("b", NoUrl, FALSE, FALSE)}}

InitDispose == Start(DisposeOptions)

NextDispose ==
    \/ \E o \in AllOptions : NewGitClient(o)
    \/ \E c \in clients, f \in OneFile : WriteFile(c, f, 1)
    \/ \E c \in clients : CallCommitAll(c, "m1")
    \/ \E c \in clients : CallDispose(c)

SpecDispose == InitDispose /\ [][NextDispose]_vars

\* Push and pull through a bare remote by clients configured with an
\* authentication: HTTP and an SSH key file that is no key, or an SSH key with
\* its passphrase and an authentication type that does not exist.
AuthOptions ==
    {{Options("r", NoUrl, TRUE, FALSE),
      WithAuth(Options("a", "r", FALSE, FALSE), "GitAuthTypeHTTP", "u", "pw", ""),
      WithAuth(Options("b", "r", FALSE, FALSE), "GitAuthTypeSSH", "", "", "id_bad")},
     {Options("r", NoUrl, TRUE, FALSE),
      WithAuth(Options("a", "r", FALSE, FALSE), "GitAuthTypeSSH", "u", "pw", "id_enc"),
      WithAuth(Options("b", "r", FALSE, FALSE), "GitAuthType(3)", "u", "", "")}}

InitAuth == Start(AuthOptions)

NextAuth ==
    \/ \E o \in scenario : NewGitClient(o)
    \/ \E c \in clients, f \in OneFile, x \in Contents : WriteFile(c, f, x)
    \/ \E c \in clients : CallCommitAll(c, "m1")
    \/ \E c \in clients : CallPush(c)
    \/ \E c \in clients : CallPull(c)

SpecAuth == InitAuth /\ [][NextAuth]_vars

\* Constructing clients: configured bare with a remote URL, on disk and in
\* memory, or with an empty path, next to a client that commits in the
\* repository the URL names.
OpenOptions ==
    {{Options("b", NoUrl, FALSE, FALSE), Options("r", "b", TRUE, FALSE),
      Options("a", "b", TRUE, TRUE), DefaultGitOptions,
      Options("", "b", FALSE, TRUE)}}

InitOpen == Start(OpenOptions)

NextOpen ==
    \/ \E o \in scenario : NewGitClient(o)
    \/ \E c \in clients, f \in OneFile, x \in Contents : WriteFile(c, f, x)
    \/ \E c \in clients, m \in Msgs : CallCommitAll(c, m)

SpecOpen == InitOpen /\ [][NextOpen]_vars

\* ================================================================ claims
\* A client of the run whose repository has a working tree to act on.
Working(c) ==
    /\ c \in clients /\ Usable(c)
    /\ ~c.opts.IsBare /\ HasWorktree(World, c.r)

\* The handle NewGitClient(o) gives when the path or key of o already holds
\* a repository.
HandleAt(w, o) ==
    IF o.IsMem
    THEN [ok |-> TRUE, mem |-> TRUE, path |-> o.Path,
          st |-> w.GitMemStorages[o.Path], wt |-> w.GitMemFileSystem[o.Path]]
    ELSE [ok |-> TRUE, mem |-> FALSE, path |-> o.Path, st |-> 0, wt |-> 0]

\* The path (on disk) or key (in memory) of o holds a repository with a
\* working tree.
HoldsRepo(w, o) ==
    IF o.IsMem
    THEN /\ w.GitMemStorages[o.Path] # 0 /\ w.GitMemFileSystem[o.Path] # 0
         /\ w.memStore[w.GitMemStorages[o.Path]].exists
    ELSE w.dirs[o.Path] = "plain"

\* The path or key of o holds nothing.
HoldsNothing(w, o) ==
    IF o.IsMem
    THEN w.GitMemStorages[o.Path] = 0 /\ w.GitMemFileSystem[o.Path] = 0
    ELSE w.dirs[o.Path] = "none"

\* NewGitClient(o) can be called within the bounds of the heap.
CanOpen(o) == (o.IsMem /\ GitMemStorages[o.Path] = 0) => nextObj <= MaxObj

\* The messages GetLogs returns.
LogMsgs(w, c) ==
    LET g == GetLogs(w, c) IN {g.logs[k].Msg : k \in 1..Len(g.logs)}

\* The errors the engine's pull can end with that Pull does not tolerate.
PullErrors ==
    {"ErrRepositoryNotFound", "ErrReferenceNotFound", "ErrNonFastForwardUpdate",
     "ErrUnstagedChanges", "ErrRemoteNotFound"}

NonOpenOptions == {o \in scenario : ~o.IsBare /\ CanOpen(o)}

C2_BareReopen ==
    \A o \in scenario :
        (o.IsBare /\ ~o.IsMem /\ dirs[o.Path] = "bare") =>
            LET res == ClientInit(World, o)
            IN  res.err = "nil" /\ res.w = World

\* C3 as stated, one call later: after a successful CommitAll(msg) and any
\* one further checkout or reset, GetLogs returns no error and an entry with
\* Msg equal to msg.
C3_AsStated ==
    \A c \in clients, m \in Msgs :
        Working(c) =>
            LET done == CommitAll(World, c, m)
            IN  done.err = "nil" =>
                    \A next \in {CheckoutBranch(done.w, c, b) : b \in Branches}
                            \cup {CheckoutHash(done.w, c, h) : h \in Hashes}
                            \cup {Reset(done.w, c, a) : a \in ResetArgs} :
                        /\ GetLogs(next.w, c).err = "nil"
                        /\ m \in LogMsgs(next.w, c)

\* C3 (amended): in the state a successful CommitAll(msg) leaves, GetLogs
\* returns no error and a sequence with at least one entry, one of which has
\* Msg equal to msg and is the entry of the new commit; and in every state
\* after a commit (all commits of this specification are made in the one
\* repository its clients share) HEAD resolves and GetLogs returns no error and
\* at least one entry.
C3_CommitIsLogged ==
    \A c \in clients :
        Working(c) =>
            /\ commits # <<>> =>
                   /\ HeadHash(RepoOf(World, c.r)) # 0
                   /\ GetLogs(World, c).err = "nil"
                   /\ Len(GetLogs(World, c).logs) >= 1
            /\ \A m \in Msgs :
                   LET done == CommitAll(World, c, m)
                       g == GetLogs(done.w, c)
                   IN  done.err = "nil" =>
                           /\ g.err = "nil"
                           /\ Len(g.logs) >= 1
                           /\ Len(done.w.commits) = Len(commits) + 1
                           /\ \E k \in 1..Len(g.logs) :
                                  /\ g.logs[k].Msg = m
                                  /\ g.logs[k].Timestamp = Len(done.w.commits)

\* C3 witness: a commit has been made in the repository of a client, GetLogs
\* returns it, and a further CommitAll succeeds.
C3_Witness ==
    \E c \in clients, m \in Msgs :
        /\ Working(c)
        /\ Len(commits) >= 1
        /\ commits[Len(commits)].msg \in LogMsgs(World, c)
        /\ CommitAll(World, c, m).err = "nil"
        /\ m \in LogMsgs(CommitAll(World, c, m).w, c)

\* The branches of a repository: the names that have a reference.
BranchSet(rp) == {b \in Branches : rp.refs[b] # 0}

\* Branch b exists neither as a reference nor in the config.
NewBranch(rp, b) == rp.refs[b] = 0 /\ b \notin rp.cfgBranches

\* CheckoutBranch(b) has created b from the HEAD of before and switched to it.
CreatedFromHead(before, after, b) ==
    /\ after.refs[b] = HeadHash(before)
    /\ after.head = b
    /\ HeadHash(after) = HeadHash(before)
    /\ BranchSet(after) = BranchSet(before) \cup {b}
    /\ b \in after.cfgBranches

BareCalls(c) ==
    {Checkout(World, c, a) : a \in CheckoutArgs}
        \cup {CheckoutBranch(World, c, b) : b \in Branches}
        \cup {CheckoutHash(World, c, h) : h \in Hashes}
        \cup {Commit(World, c, m) : m \in Msgs}
        \cup {CommitAll(World, c, m) : m \in Msgs}

\* C9: on a client configured with IsBare, each of Checkout, CheckoutBranch,
\* CheckoutHash, Commit and CommitAll returns ErrInvalidActionsForBareRepo and
\* changes nothing: branches, branch configuration, index, commits and HEAD
\* are as before.
C9_BareRefuses ==
    \A c \in clients :
        c.opts.IsBare =>
            \A res \in BareCalls(c) :
                /\ res.err = "ErrInvalidActionsForBareRepo"
                /\ res.w = World

\* C9 witness: a client configured with IsBare on a repository that has a
\* commit and a file in the working tree that is not staged as it is, so that
\* a checkout, a staging or a commit would change the repository.
C9_Witness ==
    \E c \in clients :
        /\ c.opts.IsBare /\ Usable(c)
        /\ HeadHash(RepoOf(World, c.r)) # 0
        /\ TreeOf(World, c.r) # RepoOf(World, c.r).index
        /\ CommitAll(World, c, "m1").err = "ErrInvalidActionsForBareRepo"

\* C10 as stated: after a successful CheckoutHash(h) for the hash h of an
\* existing commit, HEAD resolves to h, also when h is not the commit HEAD
\* pointed to before the call.
C10_HeadAtHash ==
    \A c \in clients, h \in 1..Len(commits) :
        Working(c) =>
            LET res == CheckoutHash(World, c, h)
            IN  res.err = "nil" => HeadHash(RepoOf(res.w, c.r)) = h

\* C6: Dispose of an on-disk client returns no error and afterwards the
\* directory at the client's path does not exist; Dispose of an in-memory
\* client returns no error and afterwards neither GitMemStorages nor
\* GitMemFileSystem holds an entry for the client's key.
C6_DisposeRemoves ==
    \A c \in clients :
        LET res == Dispose(World, c)
        IN  /\ res.err = "nil"
            /\ ~c.opts.IsMem => res.w.dirs[c.opts.Path] = "none"
            /\ c.opts.IsMem =>
                   /\ res.w.GitMemStorages[c.opts.Path] = 0
                   /\ res.w.GitMemFileSystem[c.opts.Path] = 0

\* C6 witness: the directory of an on-disk client in which a commit was made
\* is gone after Dispose, and a further Dispose still returns no error.
C6_Witness ==
    \E c \in clients :
        /\ c.r.ok /\ ~c.opts.IsMem /\ ~c.opts.IsBare
        /\ commits # <<>>
        /\ dirs[c.opts.Path] = "none"
        /\ Dispose(World, c).err = "nil"

\* Client a writes content x to file f, commits everything and pushes.
CommitAndPush(a, f, x) ==
    LET written == Put(World, a.r, RepoOf(World, a.r),
                       [TreeOf(World, a.r) EXCEPT ![f] = x])
        done == CommitAll(written, a, "m1")
        sent == Push(done.w, a)
    IN  [w |-> sent.w,
         ok |-> done.err = "nil" /\ sent.err = "nil",
         head |-> HeadHash(RepoOf(sent.w, a.r))]

\* Clients a and b hold different repositories with the same origin remote.
ShareRemote(a, b) ==
    /\ Working(a) /\ Working(b)
    /\ a.r # b.r
    /\ RepoOf(World, a.r).origin # NoUrl
    /\ RepoOf(World, a.r).origin = RepoOf(World, b.r).origin

\* The repository of b has no commit that the commit h does not contain.
NotDiverging(w, b, h) ==
    /\ HeadHash(RepoOf(w, b.r)) \in Ancestors(w.commits, h) \cup {0}
    /\ RepoOf(w, b.r).head = "master"

\* A client that NewGitClient(o) would create on a path or key holding
\* nothing, with the repository at url as its remote.
FreshWith(w, url) ==
    {o \in NonOpenOptions : o.RemoteUrl = url /\ HoldsNothing(w, o)}

\* C5 as stated: A and B share the origin remote; after A commits a file with
\* content x and A's push succeeds, a pull of B, B having no diverging local
\* commits, succeeds and B's working tree holds the file with content x; a
\* client created afterwards with the same remote URL holds it too.
C5_AsStated ==
    \A a \in clients, f \in Files, x \in Contents :
        (Working(a) /\ RepoOf(World, a.r).origin # NoUrl) =>
            LET p == CommitAndPush(a, f, x)
            IN  p.ok =>
                /\ \A b \in clients :
                       (ShareRemote(a, b) /\ NotDiverging(p.w, b, p.head)) =>
                           LET pulled == Pull(p.w, b)
                           IN  /\ pulled.err = "nil"
                               /\ TreeOf(pulled.w, b.r)[f] = x
                /\ \A o \in FreshWith(p.w, RepoOf(World, a.r).origin) :
                       LET made == ClientInit(p.w, o)
                       IN  /\ made.err = "nil"
                           /\ TreeOf(made.w, made.c.r)[f] = x

\* C5 (amended): as C5, for a client A that commits on the branch master the
\* remote's HEAD names and a client B whose working tree has no unstaged
\* change to a tracked file: B's pull succeeds, HEAD of B is the commit of A
\* and B's working tree is the tree of that commit; with an unstaged change
\* B's pull returns ErrUnstagedChanges and B's working tree stays as it is.
\* A client created afterwards with the same remote URL, on disk or in
\* memory, holds the tree of the commit.
C5_PushThenPullConverges ==
    \A a \in clients, f \in Files, x \in Contents :
        (Working(a) /\ RepoOf(World, a.r).origin # NoUrl
                    /\ RepoOf(World, a.r).head = "master") =>
            LET p == CommitAndPush(a, f, x)
            IN  p.ok =>
                /\ \A b \in clients :
                       (ShareRemote(a, b) /\ NotDiverging(p.w, b, p.head)) =>
                           LET pulled == Pull(p.w, b)
                           IN  IF ContainsUnstagedChanges(RepoOf(p.w, b.r),
                                                          TreeOf(p.w, b.r))
                               THEN /\ pulled.err = "ErrUnstagedChanges"
                                    /\ TreeOf(pulled.w, b.r) = TreeOf(p.w, b.r)
                               ELSE /\ pulled.err = "nil"
                                    /\ HeadHash(RepoOf(pulled.w, b.r)) = p.head
                                    /\ TreeOf(pulled.w, b.r) = TreeOf(p.w, a.r)
                                    /\ TreeOf(pulled.w, b.r)[f] = x
                /\ \A o \in FreshWith(p.w, RepoOf(World, a.r).origin) :
                       LET made == ClientInit(p.w, o)
                       IN  /\ made.err = "nil"
                           /\ HeadHash(RepoOf(made.w, made.c.r)) = p.head
                           /\ TreeOf(made.w, made.c.r) = TreeOf(p.w, a.r)
                           /\ TreeOf(made.w, made.c.r)[f] = x

\* C5 witness: two clients on different repositories with the same origin, one
\* of which has pushed a commit that the other, created before the commit was
\* made, holds after a pull, HEAD and working tree.
C5_Witness ==
    \E a, b \in clients :
        /\ ShareRemote(a, b)
        /\ HeadHash(RepoOf(World, a.r)) = Len(commits)
        /\ Len(commits) >= 2
        /\ HeadHash(RepoOf(World, b.r)) = HeadHash(RepoOf(World, a.r))
        /\ fsRepo[RepoOf(World, a.r).origin].refs["master"] = Len(commits)
        /\ TreeOf(World, b.r) = TreeOfCommit(commits, Len(commits))
        /\ CommitAndPush(a, "f", 1).ok

\* The options of the run that NewGitClient would open on a path or key that
\* holds nothing, not bare and with a remote URL.
WithRemoteUrl ==
    {o \in NonOpenOptions : o.RemoteUrl # NoUrl /\ HoldsNothing(World, o)}

\* C7: Init of a client that is not bare and has a remote URL, on a repository
\* without remotes, creates the remote origin with the configured URL and then
\* pulls from it: the result is that of Pull on the repository with origin
\* created, origin is there whether the pull succeeds or not, and after a
\* successful Init HEAD and working tree are those of the remote's HEAD.  On
\* disk and in memory.
C7_InitCreatesOriginThenPulls ==
    \A o \in WithRemoteUrl :
        LET res == ClientInit(World, o)
            rp == RepoOf(res.w, res.c.r)
            inited == IF o.IsMem THEN InitMem(World, o) ELSE InitFs(World, o)
            c == [opts |-> o, r |-> inited.r]
            made == CreateRemote(inited.w, c, o.RemoteUrl)
        IN  /\ inited.err = "nil" /\ made.err = "nil"
            /\ RepoOf(inited.w, c.r).origin = NoUrl
            /\ RepoOf(made.w, c.r).origin = o.RemoteUrl
            /\ res.w = Pull(made.w, c).w
            /\ res.err = Pull(made.w, c).err
            /\ rp.origin = o.RemoteUrl
            /\ (res.err = "nil" /\ HasRepoAt(World, o.RemoteUrl)
                    /\ HeadHash(fsRepo[o.RemoteUrl]) # 0) =>
                   /\ HeadHash(rp) = HeadHash(fsRepo[o.RemoteUrl])
                   /\ TreeOf(res.w, res.c.r) = TreeOfCommit(commits, HeadHash(rp))

\* C7 witness: an on-disk client and an in-memory client, each created with a
\* remote URL, whose repositories have the remote origin with that URL and
\* HEAD at the commit of the remote's HEAD.
C7_Witness ==
    \E c1, c2 \in clients :
        /\ Working(c1) /\ Working(c2)
        /\ ~c1.opts.IsMem /\ c2.opts.IsMem
        /\ \A c \in {c1, c2} :
               /\ c.opts.RemoteUrl # NoUrl
               /\ RepoOf(World, c.r).origin = c.opts.RemoteUrl
               /\ HasRepoAt(World, c.opts.RemoteUrl)
               /\ HeadHash(fsRepo[c.opts.RemoteUrl]) # 0
               /\ HeadHash(RepoOf(World, c.r)) = HeadHash(fsRepo[c.opts.RemoteUrl])

\* The error of the engine's pull for client c.
EnginePullError(c) == EngPull(World, RepoOf(World, c.r), TreeOf(World, c.r)).err

\* C8: Pull returns nil when the engine's pull reports an empty remote
\* repository or an up-to-date working tree, as when it reports no error, and
\* returns every other error of the engine unchanged; NewGitClient with the
\* URL of an empty repository as remote returns no error.
C8_PullTolerates ==
    /\ \A c \in clients :
           Working(c) =>
               Pull(World, c).err =
                   IF EnginePullError(c) \in
                          {"ErrEmptyRemoteRepository", "NoErrAlreadyUpToDate"}
                   THEN "nil" ELSE EnginePullError(c)
    /\ \A o \in WithRemoteUrl :
           (HasRepoAt(World, o.RemoteUrl)
                /\ \A b \in Branches : fsRepo[o.RemoteUrl].refs[b] = 0) =>
               ClientInit(World, o).err = "nil"

\* C8 witness: one client's pull ends up to date in the engine and returns no
\* error while another client's pull returns an error of the engine.
C8_Witness ==
    \E c1, c2 \in clients :
        /\ Working(c1) /\ Working(c2)
        /\ EnginePullError(c1) = "NoErrAlreadyUpToDate"
        /\ Pull(World, c1).err = "nil"
        /\ EnginePullError(c2) \in PullErrors
        /\ Pull(World, c2).err = EnginePullError(c2)

\* C11 as stated: for every mode, passed as a git.ResetMode or as the equal
\* int8, the mode handed to the engine's reset is the supplied mode, so that
\* Reset does what the engine's reset in that mode does.
C11_SuppliedMode ==
    \A c \in clients, a \in ResetArgs :
        (Working(c) /\ a.len = 1 /\ a.type \in {"ResetMode", "int8"}) =>
            /\ getResetModeFromArgs(a) = [mode |-> a.mode, err |-> "nil"]
            /\ Reset(World, c, a) =
                   Stored(World, c.r, EngReset(commits, RepoOf(World, c.r),
                                               TreeOf(World, c.r), a.mode, 0))

\* The hard mode, as the git.ResetMode the caller passes.
HardReset == [len |-> 1, type |-> "ResetMode", mode |-> "hard"]

\* C12: after a successful Reset with the hard mode on a repository with a
\* commit, the working tree is the tree of the HEAD commit: a file written and
\* not committed is gone, a committed file has its committed content; HEAD is
\* where it was and the index is that tree too.
C12_HardResetRestores ==
    \A c \in clients :
        (Working(c) /\ HeadHash(RepoOf(World, c.r)) # 0) =>
            LET res == Reset(World, c, HardReset)
                head == HeadHash(RepoOf(World, c.r))
            IN  /\ res.err = "nil"
                /\ HeadHash(RepoOf(res.w, c.r)) = head
                /\ RepoOf(res.w, c.r).index = commits[head].tree
                /\ \A f \in Files : TreeOf(res.w, c.r)[f] = commits[head].tree[f]

\* C12 witness: a working tree with a committed file changed since the commit
\* and a file that was never committed, which the hard reset restores and
\* removes.
C12_Witness ==
    \E c \in clients, f, g \in Files :
        /\ Working(c) /\ HeadHash(RepoOf(World, c.r)) # 0
        /\ LET t == commits[HeadHash(RepoOf(World, c.r))].tree
               wt == TreeOf(World, c.r)
               after == TreeOf(Reset(World, c, HardReset).w, c.r)
           IN  /\ t[f] # 0 /\ wt[f] # t[f]
               /\ t[g] = 0 /\ wt[g] # 0
               /\ after[f] = t[f] /\ after[g] = 0

\* Client c holds the storage and the filesystem registered under its key.
Registered(w, c) ==
    /\ c.r.ok /\ c.r.mem /\ c.opts.Path \in MemKeys
    /\ c.r.st # 0 /\ c.r.wt # 0
    /\ w.GitMemStorages[c.opts.Path] = c.r.st
    /\ w.GitMemFileSystem[c.opts.Path] = c.r.wt

\* The in-memory options of the run with the key of client c.
SameKey(c) == {o \in scenario : o.IsMem /\ c.opts.IsMem /\ o.Path = c.opts.Path}

\* A commit with message m made through client a, after a write to file f, is
\* returned by GetLogs of client b.
SeenBy(w, a, b, f, m) ==
    LET written == Put(w, a.r, RepoOf(w, a.r), [TreeOf(w, a.r) EXCEPT ![f] = 1])
        done == CommitAll(written, a, m)
    IN  done.err = "nil" /\ m \in LogMsgs(done.w, b)

\* C13 as stated: a client that holds the storage and filesystem of its key
\* and a client constructed on the same key share them, also when another
\* client has called Dispose on the key in between.
C13_AsStated ==
    \A c1 \in clients, c3 \in clients :
        (Registered(World, c1) /\ c3 # c1 /\ c3.opts.IsMem
              /\ c3.opts.Path = c1.opts.Path /\ nextObj <= MaxObj) =>
            \A o \in SameKey(c1) :
                LET made == ClientInit(Dispose(World, c3).w, o)
                IN  made.err = "nil" =>
                        /\ made.c.r.st = c1.r.st
                        /\ made.c.r.wt = c1.r.wt

\* C13 (amended): a client that holds the storage and filesystem registered
\* under its key and a client constructed on that key with no Dispose on the
\* key in between hold the same storage and filesystem, and a commit made
\* through either is returned by GetLogs of the other.  A Dispose by any
\* client of the key evicts both entries: a client constructed after it gets
\* a new, empty repository that the earlier clients do not share.
C13_SharedByKey ==
    \A c1 \in clients :
        Registered(World, c1) =>
            \A o \in SameKey(c1) :
                LET made == ClientInit(World, o)
                IN  /\ made.err = "nil"
                    /\ made.c.r = c1.r
                    /\ Registered(made.w, made.c) /\ Registered(made.w, c1)
                    /\ \A m \in Msgs :
                           /\ ~c1.opts.IsBare => SeenBy(made.w, c1, made.c, "f", m)
                           /\ ~o.IsBare => SeenBy(made.w, made.c, c1, "f", m)
                    /\ \A c3 \in clients :
                           (c3.opts.IsMem /\ c3.opts.Path = c1.opts.Path
                                /\ nextObj <= MaxObj) =>
                               LET again == ClientInit(Dispose(World, c3).w, o)
                               IN  /\ again.err = "nil"
                                   /\ again.c.r.st # c1.r.st
                                   /\ again.c.r.wt # c1.r.wt
                                   /\ Registered(again.w, again.c)
                                   /\ ~Registered(again.w, c1)
                                   /\ GetLogs(again.w, again.c).logs = <<>>

\* C13 witness: two clients constructed on one key, one configured bare and
\* one not, hold the registered storage and filesystem, and the log of the one
\* returns a commit made through the other.
C13_Witness ==
    \E c1, c2 \in clients :
        /\ c1 # c2 /\ c1.r = c2.r
        /\ Registered(World, c1) /\ Registered(World, c2)
        /\ ~c1.opts.IsBare /\ c2.opts.IsBare
        /\ commits # <<>>
        /\ LogMsgs(World, c2) # {}
        /\ ClientInit(World, c1.opts).c.r = c1.r

\* C14 as stated: when two goroutines have run Init with IsMem and the same
\* key at the same time and both have finished, both clients hold the same
\* storage and the same filesystem, the ones registered under the key.
C14_ConcurrentInitShares ==
    \A p, q \in Procs :
        (inits[p].pc = "done" /\ inits[q].pc = "done"
             /\ inits[p].opts.Path = inits[q].opts.Path) =>
            /\ inits[p].st = inits[q].st
            /\ inits[p].fs = inits[q].fs
            /\ GitMemStorages[inits[p].opts.Path] = inits[p].st
            /\ GitMemFileSystem[inits[p].opts.Path] = inits[p].fs

\* What getGitAuth is to return for a configuration: no authentication for
\* the type none, basic authentication with username and password for HTTP,
\* for SSH the public-key method of the key file, parsed with the password as
\* passphrase exactly when the password is not empty, or the error of reading
\* or parsing the file, and ErrUnsupportedType for any other type.
ResolvesAuth(t, u, pw, k) ==
    LET a == getGitAuth(t, u, pw, k)
        parsed == IF pw # "" THEN ParsePrivateKeyWithPassphrase(k, pw)
                  ELSE ParsePrivateKey(k)
    IN  /\ t = "GitAuthTypeNone" => a = [auth |-> NilAuth, err |-> "nil"]
        /\ t = "GitAuthTypeHTTP" => a = [auth |-> BasicAuth(u, pw), err |-> "nil"]
        /\ t = "GitAuthTypeSSH" =>
               /\ KeyFile(k) = "missing" => a.err = "ErrNotExist"
               /\ (KeyFile(k) # "missing" /\ parsed # "nil") => a.err = parsed
               /\ (KeyFile(k) # "missing" /\ parsed = "nil") =>
                      a = [auth |-> PublicKeys(k, pw # ""), err |-> "nil"]
        /\ t \notin {"GitAuthTypeNone", "GitAuthTypeHTTP", "GitAuthTypeSSH"} =>
               a.err = "ErrUnsupportedType"

\* C15: Pull and Push resolve the authentication of the configuration before
\* the transport: the method handed to the engine is the one ResolvesAuth
\* describes, and when resolving fails Pull and Push (with the remote there)
\* return that error, hand the transport nothing and change nothing.
C15_AuthBeforeTransport ==
    \A c \in clients, t \in AuthTypes, u \in Usernames, pw \in Passwords,
       k \in KeyPaths :
        Working(c) =>
            LET d == [c EXCEPT !.opts = WithAuth(c.opts, t, u, pw, k)]
                a == getGitAuth(t, u, pw, k)
                pulled == Pull(World, d)
                pushed == Push(World, d)
                remote == RepoOf(World, c.r).origin # NoUrl
            IN  /\ ResolvesAuth(t, u, pw, k)
                /\ a.err # "nil" =>
                       /\ pulled.err = a.err /\ pulled.w = World
                       /\ pulled.auth = NotInvoked
                       /\ remote => pushed.err = a.err
                       /\ pushed.err # "nil" /\ pushed.w = World
                       /\ pushed.auth = NotInvoked
                /\ a.err = "nil" =>
                       /\ pulled.auth = a.auth
                       /\ remote => pushed.auth = a.auth

\* C15 witness: a client whose SSH key file cannot be parsed or whose
\* authentication type does not exist, with a remote that holds a commit the
\* client lacks and with a commit of its own to push: Pull and Push return the
\* error of the authentication; and a client with HTTP or SSH authentication
\* whose pull hands the method to the engine.
C15_Witness ==
    \E c, d \in clients :
        /\ Working(c) /\ Working(d)
        /\ AuthOf(c).err # "nil"
        /\ RepoOf(World, c.r).origin # NoUrl
        /\ HasRepoAt(World, RepoOf(World, c.r).origin)
        /\ HeadHash(fsRepo[RepoOf(World, c.r).origin]) # 0
        /\ HeadHash(RepoOf(World, c.r)) # 0
        /\ HeadHash(RepoOf(World, c.r)) # HeadHash(fsRepo[RepoOf(World, c.r).origin])
        /\ Pull(World, c).err = AuthOf(c).err
        /\ Push(World, c).err = AuthOf(c).err
        /\ AuthOf(d).err = "nil"
        /\ Pull(World, d).auth = AuthOf(d).auth
        /\ AuthOf(d).auth.method \in {"BasicAuth", "PublicKeys"}

\* Remote URLs a caller can configure: the directories of the disk and one
\* that names nothing reachable.
Urls == FsPaths \cup {"test_url"}

\* C16: NewGitClient with IsBare and a remote URL does what InitFs or InitMem
\* does and nothing more, no remote is created and nothing is pulled, whatever
\* the URL; on a path or key that holds nothing it returns no error and the
\* repository has no remote; the client's configuration holds the URL and the
\* bare flag.
C16_BareIgnoresRemoteUrl ==
    \A o \in scenario, url \in Urls :
        (o.IsBare /\ CanOpen(o)) =>
            LET cfg == [o EXCEPT !.RemoteUrl = url]
                res == ClientInit(World, cfg)
                inited == IF cfg.IsMem THEN InitMem(World, cfg)
                          ELSE InitFs(World, cfg)
            IN  /\ res.w = inited.w /\ res.err = inited.err
                /\ res.c.opts.RemoteUrl = url /\ res.c.opts.IsBare
                /\ HoldsNothing(World, o) =>
                       /\ res.err = "nil"
                       /\ res.c.r.ok
                       /\ RepoOf(res.w, res.c.r).exists
                       /\ RepoOf(res.w, res.c.r).origin = NoUrl
                       /\ HeadHash(RepoOf(res.w, res.c.r)) = 0

\* C16 witness: a client configured bare with the URL of a repository that
\* holds a commit has been constructed, its repository has neither a remote
\* nor a commit, and another such client can be constructed.
C16_Witness ==
    \E c \in clients, o \in scenario :
        /\ c.opts.IsBare /\ c.r.ok /\ c.opts.RemoteUrl # NoUrl
        /\ HasRepoAt(World, c.opts.RemoteUrl)
        /\ HeadHash(fsRepo[c.opts.RemoteUrl]) # 0
        /\ RepoOf(World, c.r).exists
        /\ RepoOf(World, c.r).origin = NoUrl
        /\ o.IsBare /\ o.RemoteUrl # NoUrl /\ HoldsNothing(World, o) /\ CanOpen(o)
        /\ ClientInit(World, o).err = "nil"

\* C17 as stated: Checkout with fewer than two arguments on a client that is
\* not bare returns ErrInvalidArgsLength and leaves HEAD, the branches and the
\* working tree as they are.
C17_InvalidArgsLength ==
    \A c \in clients, a \in CheckoutArgs :
        (Working(c) /\ a.len < 2) =>
            LET res == Checkout(World, c, a)
            IN  /\ res.err = "ErrInvalidArgsLength"
                /\ res.w = World

\* C18: NewGitClient with an empty Path, the default options of a nil
\* argument among them, returns ErrInvalidOptions on disk and in memory and
\* does nothing: no directory, no repository, no entry of the registry.
C18_EmptyPathRefused ==
    \A o \in AllOptions \cup {DefaultGitOptions} :
        o.Path = "" =>
            LET res == ClientInit(World, o)
            IN  /\ res.err = "ErrInvalidOptions"
                /\ res.w = World
                /\ res.c.r = NilRepository

\* C18 witness: NewGitClient has been called with the default options and
\* with in-memory options with an empty path, while a repository with a
\* commit exists; the registry has no entry for the empty key.
C18_Witness ==
    \E c1, c2 \in clients :
        /\ c1.opts = DefaultGitOptions /\ ~c1.r.ok
        /\ c2.opts.IsMem /\ c2.opts.Path = "" /\ ~c2.r.ok
        /\ commits # <<>>
        /\ GitMemStorages[""] = 0 /\ GitMemFileSystem[""] = 0

\* C19 as stated: CheckoutBranch(b) for a branch b whose reference exists,
\* called with HEAD on another branch at another commit and no unstaged
\* change, returns no error, leaves HEAD on b and leaves the reference of b
\* at the commit it pointed to.
C19_ExistingBranchKept ==
    \A c \in clients, b \in Branches :
        LET rp == RepoOf(World, c.r)
        IN  (Working(c) /\ rp.refs[b] # 0 /\ rp.head \in Branches \ {b}
                 /\ HeadHash(rp) # 0 /\ HeadHash(rp) # rp.refs[b]
                 /\ ~ContainsUnstagedChanges(rp, TreeOf(World, c.r))) =>
                LET res == CheckoutBranch(World, c, b)
                IN  /\ res.err = "nil"
                    /\ RepoOf(res.w, c.r).head = b
                    /\ RepoOf(res.w, c.r).refs[b] = rp.refs[b]

\* The commits a reference of the repository leads to: HEAD, the branches and
\* the remote-tracking branches, through the parents.
ReachableFromReferences(rp) ==
    {h \in 1..Len(commits) :
        \E start \in {HeadHash(rp)} \cup {rp.refs[b] : b \in Branches}
                                    \cup {rp.remoteRefs[b] : b \in Branches} :
            start # 0 /\ h \in Ancestors(commits, start)}

\* The entry of GetLogs for commit h.
LogOf(h) ==
    [Msg |-> commits[h].msg, Branch |-> "",
     AuthorName |-> commits[h].author.Name,
     AuthorEmail |-> commits[h].author.Email, Timestamp |-> h]

\* C20: GetLogs, on a bare client too, returns no error and a sequence with
\* exactly one entry for each commit reachable from a reference, not only from
\* HEAD, with the commit's message, author name, author email and timestamp
\* and an empty Branch, and changes nothing.
C20_LogsOfAllReferences ==
    \A c \in clients :
        Usable(c) =>
            LET g == GetLogs(World, c)
                reach == ReachableFromReferences(RepoOf(World, c.r))
            IN  /\ g.err = "nil" /\ g.w = World
                /\ Len(g.logs) = Cardinality(reach)
                /\ \A h \in reach :
                       Cardinality({k \in 1..Len(g.logs) : g.logs[k] = LogOf(h)}) = 1
                /\ \A k \in 1..Len(g.logs) :
                       /\ g.logs[k].Branch = ""
                       /\ \E h \in reach : g.logs[k] = LogOf(h)

\* C20 witness: a client configured bare on a repository in which HEAD is on
\* one branch and another branch holds a commit HEAD does not lead to; GetLogs
\* returns both.
C20_Witness ==
    \E c \in clients :
        LET rp == RepoOf(World, c.r)
        IN  /\ Usable(c) /\ c.opts.IsBare
            /\ rp.head = "master" /\ rp.refs["master"] # 0 /\ rp.refs["test"] # 0
            /\ rp.refs["test"] \notin Ancestors(commits, HeadHash(rp))
            /\ Len(GetLogs(World, c).logs) = 2

\* The first NewGitClient(o) created origin and its pull failed: the
\* repository was opened, had no remote, and the error is the pull's.
InitialPullFailed(w, o) ==
    LET first == ClientInit(w, o)
    IN  /\ first.c.r.ok
        /\ first.err # "nil"
        /\ HoldsRepo(w, o) => RepoOf(w, HandleAt(w, o)).origin = NoUrl
        /\ RepoOf(first.w, first.c.r).origin = o.RemoteUrl

\* C21: for options that are not bare and name a remote URL, a NewGitClient
\* that follows one whose initial pull failed on the same path or key does not
\* return success: no pull from origin has completed for the repository, and
\* in the same world a pull fails again.
C21_SuccessOnlyAfterPull ==
    \A o \in scenario :
        (~o.IsBare /\ o.RemoteUrl # NoUrl /\ CanOpen(o)
            /\ InitialPullFailed(World, o)) =>
            ClientInit(ClientInit(World, o).w, o).err # "nil"

\* No goroutine is inside Init or Dispose.
NoCallInProgress == \A p \in Procs : inits[p].pc \in {"idle", "done"}

\* C22: when no Init and no Dispose is in progress, GitMemStorages holds an
\* entry for a key exactly when GitMemFileSystem holds one, whatever the
\* interleaving of the Init and Dispose calls of the clients of the key.
C22_RegistryPaired ==
    NoCallInProgress =>
        \A k \in MemKeys : (GitMemStorages[k] # 0) <=> (GitMemFileSystem[k] # 0)

\* What Dispose of client c may change of world w: the directory at the
\* client's path for an on-disk client, the two registry entries of its key
\* for an in-memory client.
OwnOnly(w, after, c) ==
    /\ \A p \in FsPaths :
           (c.opts.IsMem \/ p # c.opts.Path) =>
               /\ after.dirs[p] = w.dirs[p]
               /\ after.fsRepo[p] = w.fsRepo[p]
               /\ after.fsTree[p] = w.fsTree[p]
    /\ \A k \in MemKeys :
           (~c.opts.IsMem \/ k # c.opts.Path) =>
               /\ after.GitMemStorages[k] = w.GitMemStorages[k]
               /\ after.GitMemFileSystem[k] = w.GitMemFileSystem[k]
    /\ after.memStore = w.memStore /\ after.memFs = w.memFs
    /\ after.commits = w.commits

\* C23: Dispose of a client returns no error and changes only the client's
\* own directory (on disk) or the registry entries of its key (in memory),
\* never the other backend, another key or another directory; a second Dispose
\* of the client returns no error and changes nothing.
C23_DisposeOwnOnly ==
    \A c \in clients :
        LET once == Dispose(World, c)
            twice == Dispose(once.w, c)
        IN  /\ once.err = "nil"
            /\ OwnOnly(World, once.w, c)
            /\ twice.err = "nil"
            /\ twice.w = once.w

====
